---- MODULE Spec2Model ----
(***************************************************************************)
(* Verification model of the hammersbald key-value store sources:          *)
(*   src/src/types.rs     Offset (48 bit) and U24 (24 bit) codecs          *)
(*   src/src/bin/main.rs  the ingest benchmark driver                      *)
(* and of the storage engine (put/get/batch/init) the driver calls, whose  *)
(* code is not among the sources and is modelled from the written design.  *)
(*                                                                         *)
(* u64 and usize values are sequences of 8 bytes, most significant first,  *)
(* so that the 2^48 and 2^24 boundaries are represented exactly.           *)
(***************************************************************************)
EXTENDS Integers, Sequences, FiniteSets, TLC

VARIABLES
    \* ---- types.rs: codec pipeline
    cpc,     \* last codec operation applied
    v,       \* the u64 / usize input
    off,     \* Offset built from v                (<<>> before it is built)
    vec,     \* Offset::to_vec of off              (<<>> before)
    u24,     \* U24 built from v                   (<<>> before)
    ubuf,    \* buffer U24::serialize wrote into   (<<>> before)
    cin,     \* <<buffer, position>> handed to the last decode
    res,     \* result of the last operation
    \* ---- bin/main.rs: the benchmark driver
    mpc,     \* position in main()
    ntx,     \* number of transactions
    tb,      \* transactions per block
    bat,     \* load batch size, in blocks
    i_tx,    \* the loop variable i of the insert loop
    n,       \* transactions stored so far
    check,   \* number of keys kept in the check vector
    j_rd,    \* position of the read loop in check
    db,      \* what the driver has asked of the database handle
    \* ---- the storage engine behind the handle
    epc,      \* "closed", "idle", or the step of batch() in progress
    log,      \* Data Log as the session sees it: records up to end-of-log
    buckets,  \* staged bucket table: bucket -> Offset of the chain head
    prev,     \* staged chain entries: Offset -> Offset of the older entry
    dData,    \* durable Data Log pages: Offset -> record, or Hole
    dBuckets, \* durable bucket table
    dPrev,    \* durable chain entries
    dEol,     \* durable end-of-log Offset
    clean,    \* history: a batch() succeeded and nothing was put since
    pre       \* history: what get returned per key when a clean session ended,
              \* kept until the next put

codecVars == <<cpc, v, off, vec, u24, ubuf, cin, res>>
mainVars == <<mpc, ntx, tb, bat, i_tx, n, check, j_rd, db>>

engVars == <<epc, log, buckets, prev, dData, dBuckets, dPrev, dEol,
             clean, pre>>

vars == <<codecVars, mainVars, engVars>>

----------------------------------------------------------------------------
(* Bounds of the codec inputs *)

\* byte values the input words are built from
ByteSamples == {0, 16, 255}

\* extra bytes that may follow an encoding in a decode buffer, and the
\* largest start position of a cursor
MaxExtra == 1

\* largest length of the buffer handed to U24::serialize
MaxInto == 4

U64Samples == [1..8 -> ByteSamples]

----------------------------------------------------------------------------
(* u64 arithmetic on 8 big-endian bytes *)

RECURSIVE BitAnd(_, _)
BitAnd(a, b) ==
    IF a = 0 \/ b = 0 THEN 0
    ELSE (a % 2) * (b % 2) + 2 * BitAnd(a \div 2, b \div 2)

And64(x, y) == [i \in 1..8 |-> BitAnd(x[i], y[i])]

RECURSIVE RemPrefix(_, _, _)
RemPrefix(x, d, i) ==
    IF i = 0 THEN 0 ELSE (RemPrefix(x, d, i - 1) * 256 + x[i]) % d

\* x / d for a small divisor d
DivU64(x, d) == [i \in 1..8 |-> (RemPrefix(x, d, i - 1) * 256 + x[i]) \div d]

RECURSIVE MulCarry(_, _, _)
MulCarry(x, m, i) ==
    IF i = 8 THEN 0 ELSE (x[i + 1] * m + MulCarry(x, m, i + 1)) \div 256

\* x * m for a small factor m, modulo 2^64
MulU64(x, m) == [i \in 1..8 |-> (x[i] * m + MulCarry(x, m, i)) % 256]

RECURSIVE AddCarry(_, _, _)
AddCarry(x, a, i) ==
    IF i = 8 THEN a ELSE (x[i + 1] + AddCarry(x, a, i + 1)) \div 256

\* x + a for a small addend a, modulo 2^64
AddU64(x, a) == [i \in 1..8 |-> (x[i] + AddCarry(x, a, i)) % 256]

LessU64(x, y) ==
    \E i \in 1..8 : x[i] < y[i] /\ \A j \in 1..(i - 1) : x[j] = y[j]

LeqU64(x, y) == x = y \/ LessU64(x, y)

----------------------------------------------------------------------------
(* Results: a value, or the panic of an unwrap() on Err *)

Ok(x) == [ok |-> TRUE, val |-> x]
Panic == [ok |-> FALSE, val |-> <<>>]
NoRes == [ok |-> TRUE, val |-> <<>>]

----------------------------------------------------------------------------
(* byteorder, as types.rs uses it *)

\* read_u48::<BigEndian>() on a cursor over data at position pos
read_u48(data, pos) ==
    IF Len(data) - pos >= 6
    THEN Ok(<<0, 0>> \o SubSeq(data, pos + 1, pos + 6))
    ELSE Panic

\* read_u24::<BigEndian>() on a cursor over data at position 0, as u32
read_u24(data) ==
    IF Len(data) >= 3
    THEN Ok(<<0, 0, 0, 0, 0>> \o SubSeq(data, 1, 3))
    ELSE Panic

\* write_u48::<BigEndian>(w) into an empty Vec: the value must fit 6 bytes
write_u48(w) ==
    IF w[1] = 0 /\ w[2] = 0 THEN Ok(SubSeq(w, 3, 8)) ELSE Panic

\* write_u24::<BigEndian>(w) into the slice `into`
write_u24(w, into) ==
    IF \A i \in 1..5 : w[i] = 0
    THEN IF Len(into) >= 3
         THEN Ok(SubSeq(w, 6, 8) \o SubSeq(into, 4, Len(into)))
         ELSE Panic
    ELSE Panic

----------------------------------------------------------------------------
(* types.rs *)

PAGE_SIZE == 4096

MASK48 == <<0, 0, 255, 255, 255, 255, 255, 255>>
MASK24 == <<0, 0, 0, 0, 0, 255, 255, 255>>

\* From<u64> that keeps the high bits
OffsetFromU64_NoMask(w) == w

\* impl From<u64> for Offset
OffsetFromU64(w) == And64(w, MASK48)

\* impl From<&[u8]> for Offset
OffsetFromSlice(slice) ==
    LET r == read_u48(slice, 0)
    IN  IF r.ok THEN Ok(OffsetFromU64(r.val)) ELSE Panic

\* impl OffsetReader for Cursor<Vec<u8>>
read_offset(data, pos) == read_u48(data, pos)

\* to_vec that writes all 8 bytes of the word
to_vec_u64(o) == Ok(o)

to_vec(o) == write_u48(o)

as_u64(o) == o

this_page(o) == OffsetFromU64(MulU64(DivU64(o, PAGE_SIZE), PAGE_SIZE))

next_page(o) ==
    OffsetFromU64(MulU64(AddU64(DivU64(o, PAGE_SIZE), 1), PAGE_SIZE))

\* From<usize> with a 16 bit mask
U24FromUsize_Mask16(w) == And64(w, <<0, 0, 0, 0, 0, 0, 255, 255>>)

\* impl From<usize> for U24
U24FromUsize(w) == And64(w, MASK24)

\* impl From<&[u8]> for U24
U24FromSlice(slice) ==
    LET r == read_u24(slice)
    IN  IF r.ok THEN Ok(U24FromUsize(r.val)) ELSE Panic

as_usize(u) == u

\* self.0 as u32
AsU32(w) == [i \in 1..8 |-> IF i <= 4 THEN 0 ELSE w[i]]

serialize(u, into) == write_u24(AsU32(u), into)

----------------------------------------------------------------------------
(* Codec pipeline: each action applies one operation of types.rs *)

\* the buffers a caller may hand to a decoder: the encoding, cut short or
\* followed by further bytes
Buffers(enc) ==
    {SubSeq(enc, 1, k) : k \in 0..Len(enc)}
        \cup {enc \o [i \in 1..k |-> 255] : k \in 1..MaxExtra}

CodecInit ==
    /\ cpc = "start"
    /\ v \in U64Samples
    /\ off = <<>>
    /\ vec = <<>>
    /\ u24 = <<>>
    /\ ubuf = <<>>
    /\ cin = <<<<>>, 0>>
    /\ res = NoRes

DoOffsetFrom ==
    /\ cpc = "start"
    /\ off' = OffsetFromU64(v)
    /\ cpc' = "Offset::from"
    /\ UNCHANGED <<v, vec, u24, ubuf, cin, res>>
    /\ UNCHANGED <<mainVars, engVars>>

DoToVec ==
    /\ cpc = "Offset::from"
    /\ LET r == to_vec(off)
       IN  /\ res' = r
           /\ vec' = r.val
           /\ cpc' = IF r.ok THEN "to_vec" ELSE "panicked"
    /\ UNCHANGED <<v, off, u24, ubuf, cin>>
    /\ UNCHANGED <<mainVars, engVars>>

DoThisPage ==
    /\ cpc = "Offset::from"
    /\ res' = Ok(this_page(off))
    /\ cpc' = "this_page"
    /\ UNCHANGED <<v, off, vec, u24, ubuf, cin>>
    /\ UNCHANGED <<mainVars, engVars>>

DoNextPage ==
    /\ cpc = "Offset::from"
    /\ res' = Ok(next_page(off))
    /\ cpc' = "next_page"
    /\ UNCHANGED <<v, off, vec, u24, ubuf, cin>>
    /\ UNCHANGED <<mainVars, engVars>>

DoOffsetFromSlice ==
    /\ cpc = "to_vec"
    /\ \E b \in Buffers(vec) :
          /\ cin' = <<b, 0>>
          /\ res' = OffsetFromSlice(b)
    /\ cpc' = "Offset::from_slice"
    /\ UNCHANGED <<v, off, vec, u24, ubuf>>
    /\ UNCHANGED <<mainVars, engVars>>

DoReadOffset ==
    /\ cpc = "to_vec"
    /\ \E b \in Buffers(vec), pos \in 0..MaxExtra :
          /\ cin' = <<b, pos>>
          /\ res' = read_offset(b, pos)
    /\ cpc' = "read_offset"
    /\ UNCHANGED <<v, off, vec, u24, ubuf>>
    /\ UNCHANGED <<mainVars, engVars>>

DoU24From ==
    /\ cpc = "start"
    /\ u24' = U24FromUsize(v)
    /\ cpc' = "U24::from"
    /\ UNCHANGED <<v, off, vec, ubuf, cin, res>>
    /\ UNCHANGED <<mainVars, engVars>>

DoSerialize ==
    /\ cpc = "U24::from"
    /\ \E len \in 0..MaxInto :
          LET r == serialize(u24, [i \in 1..len |-> 0])
          IN  /\ res' = r
              /\ ubuf' = r.val
              /\ cin' = <<[i \in 1..len |-> 0], 0>>
              /\ cpc' = IF r.ok THEN "serialize" ELSE "panicked"
    /\ UNCHANGED <<v, off, vec, u24>>
    /\ UNCHANGED <<mainVars, engVars>>

DoU24FromSlice ==
    /\ cpc = "serialize"
    /\ \E b \in Buffers(SubSeq(ubuf, 1, 3)) \cup {ubuf} :
          /\ cin' = <<b, 0>>
          /\ res' = U24FromSlice(b)
    /\ cpc' = "U24::from_slice"
    /\ UNCHANGED <<v, off, vec, u24, ubuf>>
    /\ UNCHANGED <<mainVars, engVars>>

CodecNext ==
    \/ DoOffsetFrom
    \/ DoToVec
    \/ DoThisPage
    \/ DoNextPage
    \/ DoOffsetFromSlice
    \/ DoReadOffset
    \/ DoU24From
    \/ DoSerialize
    \/ DoU24FromSlice


----------------------------------------------------------------------------
(* Properties of the codec *)

\* x is v modulo 2^48: the two high bytes cleared, the six low bytes kept
IsLow48Of(x, w) ==
    /\ Len(x) = 8
    /\ x[1] = 0 /\ x[2] = 0
    /\ \A i \in 3..8 : x[i] = w[i]

FitsIn48(x) == Len(x) = 8 /\ x[1] = 0 /\ x[2] = 0

FitsIn24(w) == \A i \in 1..5 : w[i] = 0

DecodedWhole == cpc \in {"Offset::from_slice", "read_offset"} /\ cin = <<vec, 0>>

\* C4: for every u64 v, Offset::from(v).to_vec() is exactly 6 bytes, never
\* fails, and decoding it (Offset::from(&[u8]) or read_offset) yields an
\* Offset whose value is v & 0xFFFFFFFFFFFF.
C4_OffsetRoundTrip ==
    /\ (off # <<>> /\ cpc = "panicked") => u24 # <<>>
    /\ cpc = "to_vec" => Len(vec) = 6
    /\ DecodedWhole => res.ok /\ IsLow48Of(as_u64(res.val), v)

C4_Witness ==
    /\ DecodedWhole
    /\ cpc = "Offset::from_slice"
    /\ v[1] = 255 /\ v[3] = 255 /\ v[8] = 16
    /\ res.ok /\ res.val[3] = 255

\* C5: for any Offset o, also one inside the last page of the 48 bit space,
\* this_page(o) <= o < next_page(o) and next_page(o) - this_page(o) = PAGE_SIZE.
C5_PageArithmetic ==
    /\ cpc = "this_page" => LeqU64(res.val, off)
    /\ cpc = "next_page" =>
          /\ LessU64(off, res.val)
          /\ res.val = AddU64(this_page(off), PAGE_SIZE)

\* C6: encoding a size above 2^24-1 (U24::from then U24::serialize) fails
\* instead of silently truncating: no serialization of such a size succeeds.
C6_OversizeRejected ==
    (cpc = "serialize" /\ res.ok) => FitsIn24(v)

ShortDecode ==
    \/ cpc \in {"Offset::from_slice", "read_offset"} /\ Len(cin[1]) - cin[2] < 6
    \/ cpc = "U24::from_slice" /\ Len(cin[1]) < 3

IsFormatError(r) == ~r.ok /\ r # Panic

\* C7: decoding an Offset from fewer than 6 bytes, or a Size from fewer than
\* 3 bytes, returns a FormatError to the caller and does not abort.
C7_ShortBufferIsFormatError ==
    ShortDecode => IsFormatError(res)

\* C8: for every size s <= 2^24-1, U24::from(s).serialize() into a buffer of
\* at least 3 bytes writes the 3 big-endian bytes of s, and U24::from(&[u8])
\* of them has as_usize() = s.
C8_SizeRoundTrip ==
    FitsIn24(v) =>
        /\ (cpc = "serialize" \/ (cpc = "panicked" /\ u24 # <<>>)) =>
              (res.ok <=> Len(cin[1]) >= 3)
        /\ cpc = "serialize" => SubSeq(ubuf, 1, 3) = SubSeq(v, 6, 8)
        /\ (cpc = "U24::from_slice" /\ Len(cin[1]) >= 3) =>
              res.ok /\ as_usize(res.val) = v

C8_Witness ==
    /\ cpc = "U24::from_slice"
    /\ FitsIn24(v) /\ v[6] = 255 /\ v[7] = 16
    /\ Len(cin[1]) = 3
    /\ res.ok /\ res.val[6] = 255

\* C9: every Offset, whether built by From<u64>, From<&[u8]>, read_offset,
\* this_page or next_page, is at most 0xFFFFFFFFFFFF, and From<u64> of a
\* wider word is exactly that word mod 2^48.
C9_OffsetMasked ==
    /\ off # <<>> => IsLow48Of(as_u64(off), v)
    /\ (cpc \in {"this_page", "next_page", "Offset::from_slice", "read_offset"}
            /\ res.ok) => FitsIn48(as_u64(res.val))

C9_Witness ==
    /\ cpc = "next_page"
    /\ v[1] = 255 /\ v[2] = 16 /\ v[3] = 16
    /\ res.ok /\ res.val[3] = 16

----------------------------------------------------------------------------
(* bin/main.rs: the benchmark driver.  db records the calls made on the    *)
(* handle: init done, puts issued, puts issued since the last batch() that *)
(* returned Ok, batches completed, shutdown called.                        *)

\* bounds on the driver's parameters (500000000, 1000, 1000 in main.rs)
MaxNtx == 5
MaxTb == 2
MaxBat == 2

\* every CheckEvery-th key is kept for the read phase
CheckEvery == 100

\* now.elapsed().as_secs(): zero or more whole seconds
Elapsed == {0, 1}

MainInit ==
    /\ mpc = "new_db"
    /\ ntx \in 0..MaxNtx
    /\ tb \in 1..MaxTb
    /\ bat \in 1..MaxBat
    /\ i_tx = 0
    /\ n = 0
    /\ check = 0
    /\ j_rd = 0
    /\ db = [inited |-> FALSE, puts |-> 0, unbatched |-> 0, batches |-> 0,
             gets |-> 0, shut |-> FALSE]

\* let mut db = InFile::new_db("testdb").unwrap();
NewDb ==
    /\ mpc = "new_db"
    /\ \E ok \in BOOLEAN : mpc' = IF ok THEN "init" ELSE "panicked"
    /\ UNCHANGED <<ntx, tb, bat, i_tx, n, check, j_rd, db>>
    /\ UNCHANGED <<codecVars, engVars>>

\* db.init().unwrap();
DbInit ==
    /\ mpc = "init"
    /\ \E ok \in BOOLEAN :
          IF ok
          THEN /\ db' = [db EXCEPT !.inited = TRUE]
               /\ mpc' = "loop"
          ELSE /\ mpc' = "panicked"
               /\ UNCHANGED db
    /\ UNCHANGED <<ntx, tb, bat, i_tx, n, check, j_rd>>
    /\ UNCHANGED <<codecVars, engVars>>

\* one iteration of the insert loop up to the stride test
Put ==
    /\ mpc = "loop"
    /\ i_tx < ntx
    /\ check' = IF i_tx % CheckEvery = 0 THEN check + 1 ELSE check
    /\ \E ok \in BOOLEAN :
          IF ok
          THEN /\ db' = [db EXCEPT !.puts = @ + 1, !.unbatched = @ + 1]
               /\ n' = n + 1
               /\ IF (n + 1) % (bat * tb) = 0
                  THEN /\ mpc' = "batch"
                       /\ UNCHANGED i_tx
                  ELSE /\ mpc' = "loop"
                       /\ i_tx' = i_tx + 1
          ELSE /\ mpc' = "panicked"
               /\ UNCHANGED <<db, n, i_tx>>
    /\ UNCHANGED <<ntx, tb, bat, j_rd>>
    /\ UNCHANGED <<codecVars, engVars>>

\* the batch inside the loop, and the rate n/elapsed it prints
LoopBatch ==
    /\ mpc = "batch"
    /\ \E ok \in BOOLEAN, elapsed \in Elapsed :
          IF ok
          THEN /\ db' = [db EXCEPT !.unbatched = 0, !.batches = @ + 1]
               /\ IF elapsed = 0
                  THEN /\ mpc' = "panicked"
                       /\ UNCHANGED i_tx
                  ELSE /\ mpc' = "loop"
                       /\ i_tx' = i_tx + 1
          ELSE /\ mpc' = "panicked"
               /\ UNCHANGED <<db, i_tx>>
    /\ UNCHANGED <<ntx, tb, bat, n, check, j_rd>>
    /\ UNCHANGED <<codecVars, engVars>>

\* the loop is over: no batch before the read phase
FinalBatch_Skipped ==
    /\ mpc = "loop"
    /\ i_tx >= ntx
    /\ mpc' = "read"
    /\ UNCHANGED <<ntx, tb, bat, i_tx, n, check, j_rd, db>>
    /\ UNCHANGED <<codecVars, engVars>>

\* the loop is over: the batch after it, and the rate ntx/elapsed it prints
FinalBatch ==
    /\ mpc = "loop"
    /\ i_tx >= ntx
    /\ \E ok \in BOOLEAN, elapsed \in Elapsed :
          IF ok
          THEN /\ db' = [db EXCEPT !.unbatched = 0, !.batches = @ + 1]
               /\ mpc' = IF elapsed = 0 THEN "panicked" ELSE "read"
          ELSE /\ mpc' = "panicked"
               /\ UNCHANGED db
    /\ UNCHANGED <<ntx, tb, bat, i_tx, n, check, j_rd>>
    /\ UNCHANGED <<codecVars, engVars>>

\* one iteration of the read loop
Get ==
    /\ mpc = "read"
    /\ j_rd < check
    /\ \E ok \in BOOLEAN :
          IF ok
          THEN /\ db' = [db EXCEPT !.gets = @ + 1]
               /\ j_rd' = j_rd + 1
               /\ mpc' = "read"
          ELSE /\ mpc' = "panicked"
               /\ UNCHANGED <<db, j_rd>>
    /\ UNCHANGED <<ntx, tb, bat, i_tx, n, check>>
    /\ UNCHANGED <<codecVars, engVars>>

\* the read loop is over: db.shutdown()
Shutdown ==
    /\ mpc = "read"
    /\ j_rd >= check
    /\ db' = [db EXCEPT !.shut = TRUE]
    /\ mpc' = "done"
    /\ UNCHANGED <<ntx, tb, bat, i_tx, n, check, j_rd>>
    /\ UNCHANGED <<codecVars, engVars>>

MainNext ==
    \/ NewDb
    \/ DbInit
    \/ Put
    \/ LoopBatch
    \/ FinalBatch
    \/ Get
    \/ Shutdown

\* C10: in the driver init() has completed before the first put, and for
\* every ntx and stride bat*tb a batch() completes after the last put and
\* before shutdown(): at shutdown all ntx puts were issued and none of them
\* is later than the last completed batch.
C10_BatchBeforeShutdown ==
    /\ db.puts > 0 => db.inited
    /\ db.shut =>
          /\ db.puts = ntx
          /\ db.batches >= 1
          /\ db.unbatched = 0

C10_Witness ==
    /\ db.shut
    /\ ntx > bat * tb
    /\ ntx % (bat * tb) # 0
    /\ db.batches >= 2

----------------------------------------------------------------------------
(* The storage engine behind the handle (design sections 4.3 - 4.6).       *)
(* An Offset is the position of a record in the Data Log, 1 for the first; *)
(* 0 is the empty pointer.  The chain entry of a record is addressed by    *)
(* the record's Offset.                                                    *)

\* most records the Data Log takes, with crashes and restarts
MaxLog == 2

\* most records the Data Log takes in a single session without a crash
MaxSessionLog == 4

\* bucket_count, fixed at creation
NBuckets == 2

\* two keys of the same bucket
Keys == {1, 3}
Values == {1, 2}

Offsets == 1..(IF MaxLog > MaxSessionLog THEN MaxLog ELSE MaxSessionLog)
Buckets == 0..(NBuckets - 1)

Hole == [key |-> 0, val |-> 0]

Found(x) == [kind |-> "value", val |-> x]
Absent == [kind |-> "absent", val |-> 0]
CorruptRecordError == [kind |-> "CorruptRecordError", val |-> 0]
IndexCorruptionError == [kind |-> "IndexCorruptionError", val |-> 0]

\* bucket = hash(key) mod bucket_count
Hash(k) == k % NBuckets

\* Data Log read(offset): a read past the end-of-log is a corrupt record
ReadRecord(p) == IF p > Len(log) THEN Hole ELSE log[p]

\* chain walk from Offset p, with `steps` traversal steps left
RECURSIVE Walk(_, _, _)
Walk(k, p, steps) ==
    IF p = 0 THEN Absent
    ELSE IF steps = 0 THEN IndexCorruptionError
    ELSE IF p > Len(log) THEN CorruptRecordError
    ELSE IF ReadRecord(p).key = k THEN Found(ReadRecord(p).val)
    ELSE Walk(k, prev[p], steps - 1)

\* get(key): the first match on the chain of the key's bucket
get(k) == Walk(k, buckets[Hash(k)], NBuckets)

NoBuckets == [b \in Buckets |-> 0]
NoChain == [p \in Offsets |-> 0]
NoPre == [k \in Keys |-> [kind |-> "none", val |-> 0]]

\* Data Log pages and Hash Index slots that differ from stable storage
DirtyData == {p \in 1..Len(log) : dData[p] # log[p]}
DirtyBuckets == {b \in Buckets : dBuckets[b] # buckets[b]}
DirtyChain == {p \in Offsets : dPrev[p] # prev[p]}

\* a database file just created, not yet opened
EngInit ==
    /\ epc = "closed"
    /\ log = <<>>
    /\ buckets = NoBuckets
    /\ prev = NoChain
    /\ dData = [p \in Offsets |-> Hole]
    /\ dBuckets = NoBuckets
    /\ dPrev = NoChain
    /\ dEol = 0
    /\ clean = FALSE
    /\ pre = NoPre

\* init(): recover end-of-log and index from stable storage
init ==
    /\ epc = "closed"
    /\ epc' = "idle"
    /\ log' = [p \in 1..dEol |-> dData[p]]
    /\ buckets' = dBuckets
    /\ prev' = dPrev
    /\ clean' = FALSE
    /\ UNCHANGED <<dData, dBuckets, dPrev, dEol, pre>>
    /\ UNCHANGED <<codecVars, mainVars>>

\* put(key, value): append the record, prepend its chain entry
put(k, x) ==
    /\ epc = "idle"
    /\ LET p == Len(log) + 1
       IN  /\ log' = Append(log, [key |-> k, val |-> x])
           /\ prev' = [prev EXCEPT ![p] = buckets[Hash(k)]]
           /\ buckets' = [buckets EXCEPT ![Hash(k)] = p]
    /\ clean' = FALSE
    /\ pre' = NoPre
    /\ UNCHANGED <<epc, dData, dBuckets, dPrev, dEol>>
    /\ UNCHANGED <<codecVars, mainVars>>

\* batch() that starts with the Hash Index pages and never gets to the
\* Data Log pages
batch_begin_IndexFirst ==
    /\ epc = "idle"
    /\ epc' = "index"
    /\ UNCHANGED <<log, buckets, prev, dData, dBuckets, dPrev, dEol,
                   clean, pre>>
    /\ UNCHANGED <<codecVars, mainVars>>

\* batch(): begins with step (1)
batch_begin ==
    /\ epc = "idle"
    /\ epc' = "data"
    /\ UNCHANGED <<log, buckets, prev, dData, dBuckets, dPrev, dEol,
                   clean, pre>>
    /\ UNCHANGED <<codecVars, mainVars>>

\* step (1): one pending Data Log page reaches stable storage
flush_data_page ==
    /\ epc = "data"
    /\ \E p \in DirtyData : dData' = [dData EXCEPT ![p] = log[p]]
    /\ UNCHANGED <<epc, log, buckets, prev, dBuckets, dPrev, dEol,
                   clean, pre>>
    /\ UNCHANGED <<codecVars, mainVars>>

\* step (1) succeeded: go on to step (2)
flush_data_done ==
    /\ epc = "data"
    /\ DirtyData = {}
    /\ epc' = "index"
    /\ UNCHANGED <<log, buckets, prev, dData, dBuckets, dPrev, dEol,
                   clean, pre>>
    /\ UNCHANGED <<codecVars, mainVars>>

\* step (2): one pending Hash Index slot reaches stable storage
flush_index_page ==
    /\ epc = "index"
    /\ \/ \E b \in DirtyBuckets :
             /\ dBuckets' = [dBuckets EXCEPT ![b] = buckets[b]]
             /\ UNCHANGED dPrev
       \/ \E p \in DirtyChain :
             /\ dPrev' = [dPrev EXCEPT ![p] = prev[p]]
             /\ UNCHANGED dBuckets
    /\ UNCHANGED <<epc, log, buckets, prev, dData, dEol,
                   clean, pre>>
    /\ UNCHANGED <<codecVars, mainVars>>

\* step (2) succeeded: go on to step (3)
flush_index_done ==
    /\ epc = "index"
    /\ DirtyBuckets = {} /\ DirtyChain = {}
    /\ epc' = "end"
    /\ UNCHANGED <<log, buckets, prev, dData, dBuckets, dPrev, dEol,
                   clean, pre>>
    /\ UNCHANGED <<codecVars, mainVars>>

\* batch() that returns without persisting the end-of-log Offset
persist_end_Skipped ==
    /\ epc = "end"
    /\ epc' = "idle"
    /\ clean' = TRUE
    /\ UNCHANGED <<log, buckets, prev, dData, dBuckets, dPrev, dEol,
                   pre>>
    /\ UNCHANGED <<codecVars, mainVars>>

\* step (3): persist the end-of-log Offset; batch() returns Ok
persist_end ==
    /\ epc = "end"
    /\ dEol' = Len(log)
    /\ epc' = "idle"
    /\ clean' = TRUE
    /\ UNCHANGED <<log, buckets, prev, dData, dBuckets, dPrev,
                   pre>>
    /\ UNCHANGED <<codecVars, mainVars>>

\* an IoError in any step: batch() returns Err, the session goes on
batch_fail ==
    /\ epc \in {"data", "index", "end"}
    /\ epc' = "idle"
    /\ UNCHANGED <<log, buckets, prev, dData, dBuckets, dPrev, dEol,
                   clean, pre>>
    /\ UNCHANGED <<codecVars, mainVars>>

\* the session ends and what was staged is gone
EndSession ==
    /\ epc' = "closed"
    /\ pre' = IF clean THEN [k \in Keys |-> get(k)] ELSE NoPre
    /\ log' = <<>>
    /\ buckets' = NoBuckets
    /\ prev' = NoChain
    /\ clean' = FALSE
    /\ UNCHANGED <<dData, dBuckets, dPrev, dEol>>
    /\ UNCHANGED <<codecVars, mainVars>>

\* shutdown(): releases the files and flushes nothing
shutdown ==
    /\ epc = "idle"
    /\ EndSession

\* the process dies, between operations or inside batch()
crash ==
    /\ epc # "closed"
    /\ EndSession

Next ==
    \/ init
    \/ \E k \in Keys, x \in Values : Len(log) < MaxLog /\ put(k, x)
    \/ batch_begin
    \/ flush_data_page
    \/ flush_data_done
    \/ flush_index_page
    \/ flush_index_done
    \/ persist_end
    \/ batch_fail
    \/ shutdown
    \/ crash

\* a single session on a new database, never cut short
SessionNext ==
    \/ init
    \/ \E k \in Keys, x \in Values : Len(log) < MaxSessionLog /\ put(k, x)
    \/ batch_begin
    \/ flush_data_page
    \/ flush_data_done
    \/ flush_index_page
    \/ flush_index_done
    \/ persist_end
    \/ batch_fail

----------------------------------------------------------------------------
(* Specifications: one per part, the other parts at rest *)

CodecIdle ==
    /\ cpc = "idle" /\ v = <<>> /\ off = <<>> /\ vec = <<>> /\ u24 = <<>>
    /\ ubuf = <<>> /\ cin = <<<<>>, 0>> /\ res = NoRes

MainIdle ==
    /\ mpc = "idle" /\ ntx = 0 /\ tb = 1 /\ bat = 1 /\ i_tx = 0 /\ n = 0
    /\ check = 0 /\ j_rd = 0
    /\ db = [inited |-> FALSE, puts |-> 0, unbatched |-> 0, batches |-> 0,
             gets |-> 0, shut |-> FALSE]

EngIdle ==
    /\ epc = "off" /\ log = <<>> /\ buckets = <<>> /\ prev = <<>>
    /\ dData = <<>> /\ dBuckets = <<>> /\ dPrev = <<>> /\ dEol = 0
    /\ clean = FALSE /\ pre = <<>>

CodecSpecInit == CodecInit /\ MainIdle /\ EngIdle
MainSpecInit == MainInit /\ CodecIdle /\ EngIdle
Init == EngInit /\ CodecIdle /\ MainIdle

CodecSpec == CodecSpecInit /\ [][CodecNext]_vars
MainSpec == MainSpecInit /\ [][MainNext]_vars

Spec == Init /\ [][Next]_vars
SessionSpec == Init /\ [][SessionNext]_vars

----------------------------------------------------------------------------
(* Properties of the engine *)

DurablyPresent(p) == dData[p] # Hole

\* every Offset the durable Hash Index holds
IndexTargets ==
    ({dBuckets[b] : b \in Buckets} \cup {dPrev[p] : p \in Offsets}) \ {0}

DataFlushed == DirtyData = {}
IndexFlushed == DirtyBuckets = {} /\ DirtyChain = {}

\* C1: at every point, a crash inside batch() included, each Offset in the
\* durable Hash Index is durably present in the Data Log; the durable index
\* changes only once every pending Data Log page is durable, and the durable
\* end-of-log Offset changes only once data and index are both durable.
C1_IndexNeverAheadOfData ==
    /\ [](\A p \in IndexTargets : DurablyPresent(p))
    /\ [][(dBuckets' # dBuckets \/ dPrev' # dPrev) => DataFlushed]_vars
    /\ [][dEol' # dEol => (DataFlushed /\ IndexFlushed)]_vars

\* a crash after step (2) and before step (3) of the first batch
C1_Witness ==
    /\ epc = "closed"
    /\ dEol = 0
    /\ dBuckets[Hash(1)] = 2
    /\ dPrev[2] = 1
    /\ DurablyPresent(1) /\ DurablyPresent(2)

\* C2: when a session ends after a successful batch() with nothing put
\* since, then after the restart (init) get returns for every key what it
\* returned immediately before.
C2_DurableAfterBatch ==
    (epc # "closed" /\ pre # NoPre) => \A k \in Keys : get(k) = pre[k]

C2_Witness ==
    /\ epc = "idle"
    /\ pre[1] = Found(2)
    /\ pre[3] = Found(1)
    /\ get(1) = Found(2)
    /\ get(3) = Found(1)

\* the values put for key k in this session, oldest first
PutsOf(k) == SelectSeq(log, LAMBDA r : r.key = k)

\* C3: in a session, once a key was put twice with different values, get of
\* that key returns the second value, whether or not a batch() came between
\* or after the puts.
C3_LastWriterWins ==
    epc = "idle" =>
        \A k \in Keys :
            LET h == PutsOf(k)
            IN  (Len(h) >= 2 /\ h[Len(h)].val # h[Len(h) - 1].val)
                    => get(k) = Found(h[Len(h)].val)

====
